---- MODULE Spec2Model ----
(***************************************************************************)
(* TimeProbe (src/time_probe.py): a model of main(), parse_arguments(),    *)
(* read_data_file() and calc_wcet().                                       *)
(*                                                                         *)
(* Representation.                                                         *)
(*  - Python's None is the empty tuple and an int value v the tuple <<v>>. *)
(*  - Execution times are whole numbers (np.around(.., 2) leaves them      *)
(*    as read).                                                            *)
(*  - A float that may be infinite or NaN (the PPF values) is a record     *)
(*    [kind, val]: Fin(v), PosInf, NegInf, NaN.                            *)
(*  - Probabilities are whole percents: 100 stands for 1.0.                *)
(*  - lmoments3 and matplotlib are not part of the repository: the fit may *)
(*    raise or return any distribution of a small family, a display call   *)
(*    may complete, raise, or never return (the model then stays put).     *)
(***************************************************************************)
EXTENDS Integers, Sequences, FiniteSets, TLC

VARIABLES
    file_name,       \* global, line 69
    block_size,      \* global, line 70
    boundary_value,  \* global, line 71
    pc,              \* the statement the process is at
    runs,            \* number of times main() was entered in this process
    args,            \* parse_arguments: the argparse Namespace (None outside)
    calls,           \* functions main() has called in the current run
    e_time,          \* main / calc_wcet: the execution times
    block_count,     \* calc_wcet, line 156
    e_time_max,      \* calc_wcet, line 157
    fitted_gev,      \* calc_wcet, line 177
    percentile,      \* calc_wcet, line 204: numerators i of p = i / block_count
    ppf_raw,         \* calc_wcet, line 205: e_time_ppf before line 208
    e_time_ppf,      \* calc_wcet, line 208
    ppf_min_val,     \* calc_wcet, line 225
    ppf_max_val,     \* calc_wcet, line 226
    shown,           \* the plots displayed so far in the current run
    stdout,          \* what calc_wcet printed in the current run (line 240)
    exc              \* the exception that ended the current run

vars == <<file_name, block_size, boundary_value, pc, runs, args, calls, e_time,
          block_count, e_time_max, fitted_gev, percentile, ppf_raw, e_time_ppf,
          ppf_min_val, ppf_max_val, shown, stdout, exc>>

config == <<file_name, block_size, boundary_value>>

locals == <<e_time, block_count, e_time_max, fitted_gev, percentile, ppf_raw,
            e_time_ppf, ppf_min_val, ppf_max_val>>

qq_locals == <<percentile, ppf_raw, e_time_ppf, ppf_min_val, ppf_max_val>>

----------------------------------------------------------------------------
\* Bounds of the model.

MaxLen == 4          \* longest sample read from the file
MaxVal == 2          \* largest execution time
MaxBSize == 3        \* largest -bsize argument
MaxBVal == 2         \* largest -bval argument
MaxRuns == 2         \* times main() is entered in one process
MaxBlockCount == 102 \* largest block count of the Q-Q specification

\* Program constants.

DefaultBlockSize == 10   \* block_size: int = 10
SliceLen == 10           \* e_time[x : x + 10]
StopHundredths == 101    \* np.arange(.., 1.01, ..): the stop value, in hundredths

----------------------------------------------------------------------------
\* Values.

None == <<>>
Some(v) == <<v>>
Val(o) == o[1]

Fin(v) == [kind |-> "fin", val |-> v]
PosInf == [kind |-> "inf", val |-> 1]
NegInf == [kind |-> "inf", val |-> -1]
NaN == [kind |-> "nan", val |-> 0]

NoExc == [type |-> "none", at |-> "none"]
Raise(t, where) == [type |-> t, at |-> where]

NoFit == [loc |-> 0, edge |-> NaN]

\* The fitted distributions the library may return: a location and the value
\* of the quantile function at the upper end of the support.
Distributions == [loc : 1..2, edge : {PosInf, NegInf, Fin(9)}]

\* The rows a file may hold: every row of up to MaxLen times, and the rows of
\* one and of two blocks of the default size that hold at most one time
\* above 1.
ShortSamples == UNION {[1..n -> 1..MaxVal] : n \in 0..MaxLen}
LongSamples ==
    UNION {{[i \in 1..n |-> IF i = k THEN MaxVal ELSE 1] : k \in 0..n} :
             n \in {DefaultBlockSize, 2 * DefaultBlockSize}}
Samples == ShortSamples \cup LongSamples

FileNames == {"execution_times.csv"}

OptInts(lo, hi) == {None} \cup {Some(v) : v \in lo..hi}

Namespaces == [file_name : FileNames,
               bsize : OptInts(-1, MaxBSize),
               bval : OptInts(-1, MaxBVal)]

----------------------------------------------------------------------------
\* numpy and Python helpers.

MinInt(a, b) == IF a < b THEN a ELSE b

\* s[lo : hi] of a 0-based Python sequence.
PySlice(s, lo, hi) == SubSeq(s, lo + 1, MinInt(hi, Len(s)))

\* np.max / np.min of a non-empty array of finite numbers.
NpMax(s) == CHOOSE m \in {s[i] : i \in DOMAIN s} : \A i \in DOMAIN s : s[i] <= m
NpMin(s) == CHOOSE m \in {s[i] : i \in DOMAIN s} : \A i \in DOMAIN s : m <= s[i]

\* len(range(0, n, b)) for b >= 1.
RangeLen(n, b) == (n + b - 1) \div b

IsSorted(s) == \A i \in 1..(Len(s) - 1) : s[i] <= s[i + 1]

RECURSIVE Insert(_, _)
Insert(s, v) ==
    IF s = <<>> THEN <<v>>
    ELSE IF v <= Head(s) THEN <<v>> \o s
    ELSE <<Head(s)>> \o Insert(Tail(s), v)

RECURSIVE NpSort(_)
\* np.sort(a): a sorted copy of a; a itself is left as it is.
NpSort(a) == IF a = <<>> THEN <<>> ELSE Insert(NpSort(Tail(a)), Head(a))

IsInf(x) == x.kind = "inf"
IsNaN(x) == x.kind = "nan"

----------------------------------------------------------------------------
\* calc_wcet: block maxima.

\* A block count that also counts a trailing partial block.
BlockCountCeil(n, b) == (n + b - 1) \div b

\* line 156: len(e_time) // block_size
BlockCount(n, b) == n \div b

\* lines 163-166: the entries of e_time_max the loop stores before it ends
\* or before a store falls outside the array.
BlockMaxima(e, b) ==
    [k \in 1..BlockCount(Len(e), b) |->
        NpMax(PySlice(e, (k - 1) * b, (k - 1) * b + SliceLen))]

\* The loop runs once more than e_time_max has entries.
StoreOutOfBounds(e, b) == RangeLen(Len(e), b) > BlockCount(Len(e), b)

----------------------------------------------------------------------------
\* calc_wcet: the fitted distribution (lmoments3 / scipy, outside src/).

\* fitted_gev.cdf(x), in percent.
Cdf(g, x) == IF x < g.loc THEN 0 ELSE IF x = g.loc THEN 50 ELSE 100

\* fitted_gev.cdf(plot_array)
CdfArray(g, xs) == [i \in DOMAIN xs |-> Cdf(g, xs[i])]

\* fitted_gev.ppf(i / n): finite inside (0, 1), the end of the support at
\* p = 1, nan above 1.
Ppf(g, i, n) ==
    IF i > n THEN NaN ELSE IF i = n THEN g.edge ELSE Fin(g.loc + i)

\* An exceedance that leaves out the "1 -".
ExceedanceNoComplement(g, b) == Cdf(g, b)

\* line 239: 1 - fitted_gev.cdf(boundary_value)
Exceedance(g, b) == 100 - Cdf(g, b)

\* line 185: 1 - fitted_gev.cdf(plot_array)
SfArray(g, xs) == [i \in DOMAIN xs |-> 100 - Cdf(g, xs[i])]

\* line 183: np.arange(1, max_value + 1, 1)
PlotArray(max_value) == [i \in 1..max_value |-> i]

----------------------------------------------------------------------------
\* calc_wcet: the Q-Q percentiles.

CeilDiv(a, b) == (a + b - 1) \div b

\* line 204: len(np.arange(1 / n, 1.01, 1 / n)) = ceil((1.01 - 1/n) / (1/n))
\* = ceil((101 n - 100) / 100).  The double computation gives the same
\* number for every n < 200.
PercentileLen(n) == CeilDiv(StopHundredths * n - 100, 100)

\* line 204: entry i is 1/n + (i - 1)/n = i/n; the numerators are kept.
Percentile(n) == [i \in 1..PercentileLen(n) |-> i]

\* line 205
PpfArray(g, ps, n) == [i \in DOMAIN ps |-> Ppf(g, ps[i], n)]

\* A replacement that only looks for positive infinity.
NpWherePosInf(a) == [i \in DOMAIN a |-> IF a[i] = PosInf THEN Fin(1) ELSE a[i]]

\* line 208: np.where(np.isinf(e_time_ppf), 1, e_time_ppf)
NpWhereIsInf(a) == [i \in DOMAIN a |-> IF IsInf(a[i]) THEN Fin(1) ELSE a[i]]

\* np.min / np.max of a non-empty float array: nan if any entry is nan,
\* otherwise by value, the infinities below and above every finite number.
Key(x) == IF IsInf(x) THEN x.val * 1000000 ELSE x.val
FloatMin(a) ==
    IF \E i \in DOMAIN a : IsNaN(a[i]) THEN NaN
    ELSE a[CHOOSE i \in DOMAIN a : \A j \in DOMAIN a : Key(a[i]) <= Key(a[j])]
FloatMax(a) ==
    IF \E i \in DOMAIN a : IsNaN(a[i]) THEN NaN
    ELSE a[CHOOSE i \in DOMAIN a : \A j \in DOMAIN a : Key(a[j]) <= Key(a[i])]

----------------------------------------------------------------------------
\* calc_wcet: the order of its steps.

\* An order that prints the exceedance without the Q-Q plot.
StatementAfterSkippingQQ(p) ==
    CASE p = "extract" -> "fit"
      [] p = "fit" -> "show_cdf"
      [] p = "show_cdf" -> "show_sf"
      [] p = "show_sf" -> "exceedance"
      [] p = "qq_ppf" -> "qq_plot"
      [] p = "qq_plot" -> "exceedance"
      [] p = "exceedance" -> "done"

\* lines 156-241, top to bottom
StatementAfter(p) ==
    CASE p = "extract" -> "fit"
      [] p = "fit" -> "show_cdf"
      [] p = "show_cdf" -> "show_sf"
      [] p = "show_sf" -> "qq_ppf"
      [] p = "qq_ppf" -> "qq_plot"
      [] p = "qq_plot" -> "exceedance"
      [] p = "exceedance" -> "done"

CalcWcetSteps == {"extract", "fit", "show_cdf", "show_sf", "qq_ppf", "qq_plot",
                  "exceedance"}

----------------------------------------------------------------------------
\* parse_arguments: the two optional settings.

Accept(v) == [ok |-> TRUE, val |-> v]
Reject(v) == [ok |-> FALSE, val |-> v]

\* An option that falls back to the default when its value is not valid.
OptionDefaultsWhenInvalid(opt, cur, default) ==
    IF opt = None THEN Accept(cur)
    ELSE IF Val(opt) <= 0 THEN Accept(default)
    ELSE Accept(opt)

\* An option that is set back to the default when it is not supplied.
OptionResetsWhenAbsent(opt, cur, default) ==
    IF opt = None THEN Accept(default)
    ELSE IF Val(opt) <= 0 THEN Reject(cur)
    ELSE Accept(opt)

\* lines 307-313 and 322-328: the global after the option was looked at, and
\* whether ValueError was raised.  opt is the option (None or <<v>>), cur the
\* global as <<v>> or None; default, what the global was initialised with,
\* is not used.  argparse's type=int makes the isinstance test true.
Option(opt, cur, default) ==
    IF opt = None THEN Accept(cur)
    ELSE IF Val(opt) <= 0 THEN Reject(cur)
    ELSE Accept(opt)

----------------------------------------------------------------------------
\* The plots.

CdfPlot(g, e) ==
    [title |-> "CDF of the Fitted GEV",
     xs |-> PlotArray(NpMax(e)), ys |-> CdfArray(g, PlotArray(NpMax(e)))]

SfPlot(g, e) ==
    [title |-> "1-CDF of the Fitted GEV",
     xs |-> PlotArray(NpMax(e)), ys |-> SfArray(g, PlotArray(NpMax(e)))]

QQPlotData(ppf, maxima) ==
    [title |-> "Q-Q Plot of the Fitted GEV", xs |-> ppf, ys |-> maxima]

----------------------------------------------------------------------------
\* The state after construction: the module was loaded, main() not entered.

FreshLocals ==
    /\ e_time = <<>>
    /\ block_count = 0
    /\ e_time_max = <<>>
    /\ fitted_gev = NoFit
    /\ percentile = <<>>
    /\ ppf_raw = <<>>
    /\ e_time_ppf = <<>>
    /\ ppf_min_val = NaN
    /\ ppf_max_val = NaN

Init ==
    /\ file_name = None
    /\ block_size = DefaultBlockSize
    /\ boundary_value = None
    /\ pc = "idle"
    /\ runs = 0
    /\ args = None
    /\ calls = <<>>
    /\ FreshLocals
    /\ shown = <<>>
    /\ stdout = <<>>
    /\ exc = NoExc

\* The locals of a call that has not run yet.
ResetLocals ==
    /\ e_time' = <<>>
    /\ block_count' = 0
    /\ e_time_max' = <<>>
    /\ fitted_gev' = NoFit
    /\ percentile' = <<>>
    /\ ppf_raw' = <<>>
    /\ e_time_ppf' = <<>>
    /\ ppf_min_val' = NaN
    /\ ppf_max_val' = NaN

\* The statement at pc raises t: the run ends there.
Fails(t) ==
    /\ pc' = "error"
    /\ exc' = Raise(t, pc)

\* main() is entered: at the start of the process, or again by a caller that
\* imported the module.  The globals are those the last run left.
Main ==
    /\ pc \in {"idle", "done", "error"}
    /\ runs < MaxRuns
    /\ runs' = runs + 1
    /\ pc' = "parse_args"
    /\ args' = None
    /\ calls' = <<"parse_arguments">>
    /\ ResetLocals
    /\ shown' = <<>>
    /\ stdout' = <<>>
    /\ exc' = NoExc
    /\ UNCHANGED config

\* parse_arguments, lines 275-288: argparse returns a Namespace, or exits on a
\* command line it cannot parse.
ParseArgs ==
    /\ pc = "parse_args"
    /\ \/ \E a \in Namespaces :
            /\ args' = a
            /\ pc' = "set_config"
            /\ UNCHANGED exc
       \/ /\ Fails("SystemExit")
          /\ UNCHANGED args
    /\ UNCHANGED <<config, runs, calls, locals, shown, stdout>>

\* parse_arguments, lines 295-329: the globals are set in turn; the first
\* option that is not valid raises ValueError and leaves the later ones.
SetConfiguration ==
    LET bs == Option(args.bsize, Some(block_size), Some(DefaultBlockSize))
        bv == Option(args.bval, boundary_value, None)
    IN  /\ pc = "set_config"
        /\ file_name' = Some(args.file_name)
        /\ block_size' = Val(bs.val)
        /\ boundary_value' = IF bs.ok THEN bv.val ELSE boundary_value
        /\ IF bs.ok /\ bv.ok
              THEN /\ pc' = "read"
                   /\ calls' = Append(calls, "read_data_file")
                   /\ UNCHANGED exc
              ELSE /\ Fails("ValueError")
                   /\ UNCHANGED calls
        /\ args' = None
        /\ UNCHANGED <<runs, locals, shown, stdout>>

\* read_data_file, lines 75-110: the last row of the file, or the file cannot
\* be opened, holds no row, or holds a field that is no number.
ReadDataFile ==
    /\ pc = "read"
    /\ \/ \E s \in Samples :
            /\ e_time' = s
            /\ pc' = "extract"
            /\ calls' = Append(calls, "calc_wcet")
            /\ UNCHANGED exc
       \/ \E t \in {"FileNotFoundError", "UnboundLocalError", "ValueError"} :
            /\ Fails(t)
            /\ UNCHANGED <<e_time, calls>>
    /\ UNCHANGED <<config, runs, args, block_count, e_time_max, fitted_gev,
                   qq_locals, shown, stdout>>

\* calc_wcet, lines 156-168.  The store at line 165 raises IndexError when the
\* loop runs past the end of e_time_max.  np.sort returns a sorted copy that
\* line 168 drops: e_time_max stays as the loop left it.
ExtractBlockMaxima ==
    LET maxima == BlockMaxima(e_time, block_size)
        dropped == NpSort(maxima)
    IN  /\ pc = "extract"
        /\ block_count' = BlockCount(Len(e_time), block_size)
        /\ e_time_max' = maxima
        /\ IF StoreOutOfBounds(e_time, block_size)
              THEN Fails("IndexError")
              ELSE /\ pc' = StatementAfter(pc)
                   /\ UNCHANGED exc
        /\ UNCHANGED <<config, runs, args, calls, e_time, fitted_gev, qq_locals,
                       shown, stdout>>

\* calc_wcet, lines 176-177: the library returns a distribution or raises.
FitGev ==
    /\ pc = "fit"
    /\ \/ \E g \in Distributions :
            /\ fitted_gev' = g
            /\ pc' = StatementAfter(pc)
            /\ UNCHANGED exc
       \/ /\ Fails("LmomFitError")
          /\ UNCHANGED fitted_gev
    /\ UNCHANGED <<config, runs, args, calls, e_time, block_count, e_time_max,
                   qq_locals, shown, stdout>>

\* calc_wcet, lines 182-192: np.max of an empty array raises ValueError; the
\* display completes or raises.
ShowCdf ==
    /\ pc = "show_cdf"
    /\ \/ /\ e_time = <<>>
          /\ Fails("ValueError")
          /\ UNCHANGED shown
       \/ /\ e_time # <<>>
          /\ shown' = Append(shown, CdfPlot(fitted_gev, e_time))
          /\ pc' = StatementAfter(pc)
          /\ UNCHANGED exc
       \/ /\ e_time # <<>>
          /\ Fails("DisplayError")
          /\ UNCHANGED shown
    /\ UNCHANGED <<config, runs, args, calls, locals, stdout>>

\* calc_wcet, lines 194-199.
ShowSf ==
    /\ pc = "show_sf"
    /\ \/ /\ shown' = Append(shown, SfPlot(fitted_gev, e_time))
          /\ pc' = StatementAfter(pc)
          /\ UNCHANGED exc
       \/ /\ Fails("DisplayError")
          /\ UNCHANGED shown
    /\ UNCHANGED <<config, runs, args, calls, locals, stdout>>

\* calc_wcet, lines 204-208.
QQPpf ==
    LET ps == Percentile(block_count)
        ppf == PpfArray(fitted_gev, ps, block_count)
    IN  /\ pc = "qq_ppf"
        /\ IF block_count = 0
              THEN /\ Fails("ZeroDivisionError")
                   /\ UNCHANGED <<percentile, ppf_raw, e_time_ppf>>
              ELSE /\ percentile' = ps
                   /\ ppf_raw' = ppf
                   /\ e_time_ppf' = NpWhereIsInf(ppf)
                   /\ pc' = StatementAfter(pc)
                   /\ UNCHANGED exc
        /\ UNCHANGED <<config, runs, args, calls, e_time, block_count,
                       e_time_max, fitted_gev, ppf_min_val, ppf_max_val, shown,
                       stdout>>

\* calc_wcet, lines 221-231: plt.plot raises ValueError when its two arrays
\* differ in length; the display completes or raises.
QQPlot ==
    /\ pc = "qq_plot"
    /\ \/ /\ Len(e_time_ppf) # Len(e_time_max)
          /\ Fails("ValueError")
          /\ UNCHANGED <<ppf_min_val, ppf_max_val, shown>>
       \/ /\ Len(e_time_ppf) = Len(e_time_max)
          /\ ppf_min_val' = FloatMin(e_time_ppf)
          /\ ppf_max_val' = FloatMax(e_time_ppf)
          /\ shown' = Append(shown, QQPlotData(e_time_ppf, e_time_max))
          /\ pc' = StatementAfter(pc)
          /\ UNCHANGED exc
       \/ /\ Fails("DisplayError")
          /\ UNCHANGED <<ppf_min_val, ppf_max_val, shown>>
    /\ UNCHANGED <<config, runs, args, calls, e_time, block_count, e_time_max,
                   fitted_gev, percentile, ppf_raw, e_time_ppf, stdout>>

\* calc_wcet, lines 238-241.
ReportExceedance ==
    /\ pc = "exceedance"
    /\ stdout' =
          IF boundary_value # None
            THEN Append(stdout,
                        [boundary |-> Val(boundary_value),
                         probability |-> Exceedance(fitted_gev, Val(boundary_value))])
            ELSE stdout
    /\ pc' = StatementAfter(pc)
    /\ UNCHANGED <<config, runs, args, calls, locals, shown, exc>>

Next ==
    \/ Main
    \/ ParseArgs
    \/ SetConfiguration
    \/ ReadDataFile
    \/ ExtractBlockMaxima
    \/ FitGev
    \/ ShowCdf
    \/ ShowSf
    \/ QQPpf
    \/ QQPlot
    \/ ReportExceedance

Spec == Init /\ [][Next]_vars

----------------------------------------------------------------------------
\* The Q-Q step on its own, for block counts up to MaxBlockCount.  The
\* initial states are those calc_wcet is in at line 204 when the file held
\* n, n-1, .., 1, the command line gave -bsize 1, the fit returned and the
\* two first plots were closed.

Ramp(n) == [i \in 1..n |-> n + 1 - i]

InitQQ ==
    \E n \in 1..MaxBlockCount, g \in Distributions, bv \in OptInts(1, MaxBVal) :
        /\ file_name \in {Some(f) : f \in FileNames}
        /\ block_size = 1
        /\ boundary_value = bv
        /\ pc = "qq_ppf"
        /\ runs = 1
        /\ args = None
        /\ calls = <<"parse_arguments", "read_data_file", "calc_wcet">>
        /\ e_time = Ramp(n)
        /\ block_count = BlockCount(n, 1)
        /\ e_time_max = BlockMaxima(Ramp(n), 1)
        /\ fitted_gev = g
        /\ percentile = <<>>
        /\ ppf_raw = <<>>
        /\ e_time_ppf = <<>>
        /\ ppf_min_val = NaN
        /\ ppf_max_val = NaN
        /\ shown = <<CdfPlot(g, Ramp(n)), SfPlot(g, Ramp(n))>>
        /\ stdout = <<>>
        /\ exc = NoExc

NextQQ ==
    \/ QQPpf
    \/ QQPlot
    \/ ReportExceedance

SpecQQ == InitQQ /\ [][NextQQ]_vars

----------------------------------------------------------------------------
\* Properties.

Range(s) == {s[i] : i \in DOMAIN s}

\* calc_wcet got past the block-maxima loop without an exception.
Extracted == pc \in (CalcWcetSteps \ {"extract"}) \cup {"done"}

\* C1: when the sample length N is a positive multiple of the block size b,
\* e_time_max has N/b entries and entry i is the maximum of the i-th
\* contiguous block of b values, for every b.
C1_EntryIsMaxOfItsBlock ==
    (/\ pc = "fit"
     /\ Len(e_time) > 0
     /\ Len(e_time) % block_size = 0)
    => /\ Len(e_time_max) = Len(e_time) \div block_size
       /\ \A i \in 1..(Len(e_time) \div block_size) :
             e_time_max[i] =
               NpMax(SubSeq(e_time, (i - 1) * block_size + 1, i * block_size))

\* When the extraction has run on a sample whose length is no multiple of
\* the block size.
PartialBlock ==
    /\ "calc_wcet" \in Range(calls)
    /\ pc # "extract"
    /\ Len(e_time) % block_size # 0

NothingProduced ==
    /\ fitted_gev = NoFit
    /\ shown = <<>>
    /\ stdout = <<>>

\* C2, as claimed: when N mod b # 0 the extraction fails with an
\* InvalidBlockConfiguration error before any fit, plot or exceedance output.
C2_FailsWithInvalidBlockConfiguration ==
    PartialBlock
    => /\ pc = "error"
       /\ exc = Raise("InvalidBlockConfiguration", "extract")
       /\ NothingProduced

\* C2, amended: when N mod b # 0 the extraction fails with the IndexError of
\* the store past the end of e_time_max, before any fit, plot or exceedance
\* output, and e_time_max holds no entry for the partial block.
C2_FailsWithIndexError ==
    PartialBlock
    => /\ pc = "error"
       /\ exc = Raise("IndexError", "extract")
       /\ NothingProduced
       /\ Len(e_time_max) = Len(e_time) \div block_size

C2_Witness ==
    /\ PartialBlock
    /\ exc = Raise("IndexError", "extract")
    /\ Len(e_time) > block_size

\* C3: where e_time_max is passed to the fit and where it is paired with
\* the PPF values, it is sorted ascending.
C3_MaximaSortedWhenUsed ==
    pc \in {"fit", "qq_plot"} => IsSorted(e_time_max)

\* C4: for every block count n >= 1 the Q-Q step evaluates the PPF at
\* exactly the n percentiles i/n, i = 1..n, so the PPF values and the block
\* maxima have the same length.
C4_OnePercentilePerMaximum ==
    pc = "qq_plot"
    => /\ Len(percentile) = block_count
       /\ \A i \in 1..Len(percentile) : percentile[i] = i
       /\ Len(e_time_ppf) = Len(e_time_max)

\* C5: every infinite PPF value is replaced by 1 and every other value is
\* left as it is, so that no infinite value is in the Q-Q pairing, in the
\* min/max of the reference line or in a plot.
C5_InfinitePpfReplacedByOne ==
    /\ Len(e_time_ppf) = Len(ppf_raw)
    /\ \A i \in 1..Len(ppf_raw) :
          /\ ppf_raw[i] \in {PosInf, NegInf} => e_time_ppf[i] = Fin(1)
          /\ ppf_raw[i] \notin {PosInf, NegInf} => e_time_ppf[i] = ppf_raw[i]
          /\ e_time_ppf[i] \notin {PosInf, NegInf}
    /\ ppf_min_val \notin {PosInf, NegInf}
    /\ ppf_max_val \notin {PosInf, NegInf}
    /\ \A k \in 1..Len(shown) :
          shown[k].title = "Q-Q Plot of the Fitted GEV"
          => /\ shown[k].xs = e_time_ppf
             /\ \A i \in 1..Len(shown[k].xs) :
                   shown[k].xs[i] \notin {PosInf, NegInf}

C5_Witness ==
    /\ pc = "exceedance"
    /\ \E i, j \in 1..Len(ppf_raw) :
          /\ ppf_raw[i] = PosInf
          /\ e_time_ppf[i] = Fin(1)
          /\ ppf_raw[j].kind = "fin"
          /\ e_time_ppf[j] = ppf_raw[j]
    /\ Len(shown) = 3

\* C6: in a run that went through the exceedance step, nothing was reported
\* and no error raised if the boundary value is None, and otherwise exactly
\* one probability was reported, 1 - cdf(boundary_value).
C6_ExceedanceReported ==
    pc = "done"
    => /\ exc = NoExc
       /\ boundary_value = None => stdout = <<>>
       /\ boundary_value # None
            => /\ Len(stdout) = 1
               /\ stdout[1].boundary = Val(boundary_value)
               /\ stdout[1].probability
                    = 100 - Cdf(fitted_gev, Val(boundary_value))

C6_Witness ==
    /\ pc = "done"
    /\ boundary_value # None
    /\ Len(stdout) = 1
    /\ stdout[1].probability = 100

\* C7: an option given with a value <= 0 makes parse_arguments raise
\* ValueError with its global unchanged and neither read_data_file nor
\* calc_wcet called; so whenever calc_wcet has been called, block_size >= 1
\* and boundary_value is None or >= 1.
C7_InvalidOptionRaises ==
    [][/\ pc = "set_config"
          => /\ (args.bsize # None /\ Val(args.bsize) <= 0)
                  => /\ pc' = "error"
                     /\ exc' = Raise("ValueError", "set_config")
                     /\ block_size' = block_size
                     /\ calls' = <<"parse_arguments">>
             /\ (args.bval # None /\ Val(args.bval) <= 0)
                  => /\ pc' = "error"
                     /\ exc' = Raise("ValueError", "set_config")
                     /\ boundary_value' = boundary_value
                     /\ calls' = <<"parse_arguments">>
       /\ "calc_wcet" \in Range(calls')
          => /\ block_size' >= 1
             /\ boundary_value' = None \/ Val(boundary_value') >= 1
      ]_vars

C7_Witness ==
    /\ exc = Raise("ValueError", "set_config")
    /\ calls = <<"parse_arguments">>
    /\ runs = 2
    /\ block_size # DefaultBlockSize

C10_ReportedDespiteDisplayFailure ==
    (/\ pc = "error"
     /\ exc.type = "DisplayError"
     /\ boundary_value # None)
    => stdout # <<>>

\* C10, amended: the exceedance probability is reported only after the CDF,
\* the 1-CDF and the Q-Q display have all completed, and not at all in a run
\* that a display step ended.
C10_ReportedOnlyAfterDisplays ==
    /\ stdout # <<>>
         => /\ Len(shown) = 3
            /\ shown[1].title = "CDF of the Fitted GEV"
            /\ shown[2].title = "1-CDF of the Fitted GEV"
            /\ shown[3].title = "Q-Q Plot of the Fitted GEV"
    /\ exc.type = "DisplayError" => stdout = <<>>

C10_Witness ==
    /\ pc = "error"
    /\ exc = Raise("DisplayError", "qq_plot")
    /\ fitted_gev # NoFit
    /\ boundary_value # None
    /\ Len(shown) = 2
    /\ stdout = <<>>

====
